---------------------------- MODULE Spec2Model ----------------------------
(***************************************************************************)
(* Model of baryon_painter.utils.datasets.BAHAMASDataset: construction     *)
(* (field / redshift validation, geometry), flat-index decoding, tile      *)
(* retrieval and sample assembly.                                          *)
(*                                                                         *)
(* Python values are modelled as follows.                                  *)
(*   - a redshift (float) is a natural number;                             *)
(*   - an index argument is a record [kind, val]: kind "int" carries the   *)
(*     integer val, kind "float" stands for the non-integral val + 0.5,    *)
(*     kinds "list", "tuple", "ndarray", "str" are iterables, and kind     *)
(*     "None" is Python's None;                                            *)
(*   - a call returns [exc, val]: exc = "none" and the returned value, or  *)
(*     the name of the exception that left the call;                       *)
(*   - a 2d array is a function on (row, column) pairs;                    *)
(*   - a closure made by create_transform is the record of what it binds.  *)
(*                                                                         *)
(* Library behaviour is that of the versions the module runs on (it uses   *)
(* collections.Iterable and np.unravel_index(..., dims=...)): indexing a   *)
(* numpy array with a float raises IndexError, with a negative integer it  *)
(* counts from the end.                                                    *)
(*                                                                         *)
(* Every file of one constructor call holds arrays of one shape            *)
(* (args.shape), and no two records of a call name the same (field, z).    *)
(***************************************************************************)
EXTENDS Integers, Sequences, FiniteSets, TLC

\* ------------------------------------------------------------------ bounds
\* stacks per family: n_stack_100, n_stack_150 range over 1..MaxStack
MaxStack == 2
\* tiles per axis: n_tile ranges over 1..MaxTile
MaxTile == 2
\* grid side of a raw stack: n_grid ranges over 1..MaxGrid
MaxGrid == 4
\* redshifts occurring in file records are 0..MaxZ-1; MaxZ itself is a
\* redshift a caller may request but no record has
MaxZ == 2

\* ------------------------------------------------------------ Python values
None == [kind |-> "None", val |-> 0]
PyInt(i) == [kind |-> "int", val |-> i]
PyFloat(i) == [kind |-> "float", val |-> i]
Iterables == {"list", "tuple", "ndarray", "str"}
Ok(v) == [exc |-> "none", val |-> v]
Raise(e) == [exc |-> e]

SeqToSet(s) == {s[i] : i \in DOMAIN s}
\* the orders in which list(a_set) may enumerate a set
ListsOf(S) ==
    {s \in [1..Cardinality(S) -> S] : SeqToSet(s) = S}
\* sorted(list(S)) for a set of numbers
RECURSIVE sorted(_)
sorted(S) ==
    IF S = {} THEN <<>>
    ELSE LET m == CHOOSE x \in S : \A y \in S : x <= y
         IN <<m>> \o sorted(S \ {m})

\* ------------------------------------------------------------ file contents
FieldNames == {"dm", "gas", "pressure"}
RecordZs == 0..(MaxZ - 1)
FieldCode(field) ==
    CASE field = "dm" -> 0 [] field = "gas" -> 1 [] OTHER -> 2

\* The four scalar statistics a file record carries for (field, z).
FileStats(field, z) ==
    LET k == FieldCode(field) * (MaxZ + 1) + z
    IN [mean_100 |-> 1 + k, mean_150 |-> 20 + 2 * k,
        var_100 |-> 50 + 3 * k, var_150 |-> 90 + 5 * k]

\* What the .npy files of a call hold: two array contents are told apart, the
\* statistics of the records being the same for both.
ArrayContents == {0, 1}
\* The pixel (r, c) of stack s of the array np.load returns for the file of
\* family fam ("100" or "150") of (field, z), the files holding arrays.
Pixel(arrays, fam, field, z, s, r, c) ==
    LET k == FieldCode(field) * (MaxZ + 1) + z
        p == ((k * MaxStack + s) * MaxGrid + r) * MaxGrid + c
    IN IF fam = "100" THEN 2 * p + 1 + arrays * (p + 7)
       ELSE 1000 + 3 * p + arrays * (5 * p + 11)

\* A file record: {"field", "z", "file_100", "file_150", "mean_100", ...}
FileRecord(field, z) ==
    [field |-> field, z |-> z, stats |-> FileStats(field, z)]

\* ---------------------------------------------------------------- transforms
\* transform(x, field, z, **stats): "identity" is the default argument; the
\* other one is a caller-supplied transform that reads field, z and the stats.
TransformKinds == {"identity", "shift"}
transform_fn(kind, x, field, z, stats) ==
    IF kind = "identity" THEN x
    ELSE [p \in DOMAIN x |->
            x[p] - stats.mean + stats.var * (FieldCode(field) + 1) + z]
\* inverse_transform default: (field, z, mean, var)
inverse_transform_fn(kind, x, field, z, stats) ==
    IF kind = "identity" THEN <<field, z, stats.mean, stats.var>>
    ELSE [p \in DOMAIN x |->
            x[p] + stats.mean - stats.var * (FieldCode(field) + 1) - z]

VARIABLES
    args,    \* the arguments of the constructor call
    pc,      \* "new": not constructed; "ready": constructed; "failed"
    err,     \* the exception that left __init__, when pc = "failed"
    self,    \* the attributes of the dataset object
    self0,   \* history: the attributes as __init__ left them
    res,     \* the last per-sample call: [op, idx, z, flag, out]
    failed_call  \* history: some per-sample call has raised

vars == <<args, pc, err, self, self0, res, failed_call>>

NoSelf == [constructed |-> FALSE]
NoErr == [exc |-> "none"]
NoRes == [op |-> "none"]

\* ------------------------------------------------------------- construction
\* lines 52-61: the fields and the redshifts the file records name
available_fields(a) == {f.field : f \in a.files}
available_redshifts(a) == {f.z : f \in a.files}

\* lines 63-69: self.fields after the label allow-list, or the ValueError
select_fields(a) ==
    LET requested == {a.input_field} \cup SeqToSet(a.label_fields)
    IN IF a.label_fields # <<>>
       THEN IF requested \subseteq available_fields(a)
            THEN Ok(available_fields(a) \cap requested)
            ELSE [exc |-> "ValueError", what |-> "fields",
                  missing |-> requested \ available_fields(a)]
       ELSE Ok(available_fields(a))

\* a faulty select_redshifts: the error names every requested redshift,
\* not only the absent ones
select_redshifts_names_all(a) ==
    LET requested == SeqToSet(a.redshifts)
    IN IF a.redshifts # <<>>
       THEN IF requested \subseteq available_redshifts(a)
            THEN Ok(available_redshifts(a) \cap requested)
            ELSE [exc |-> "ValueError", what |-> "redshifts",
                  missing |-> requested]
       ELSE Ok(available_redshifts(a))
\* lines 74-80: self.redshifts (a set) after the redshift allow-list
select_redshifts(a) ==
    LET requested == SeqToSet(a.redshifts)
    IN IF a.redshifts # <<>>
       THEN IF requested \subseteq available_redshifts(a)
            THEN Ok(available_redshifts(a) \cap requested)
            ELSE [exc |-> "ValueError", what |-> "redshifts",
                  missing |-> requested \ available_redshifts(a)]
       ELSE Ok(available_redshifts(a))

\* line 72: the set list(...) turns into self.label_fields
label_set(a) == select_fields(a).val \ {a.input_field}

\* line 115
tile_size_of(n_grid, n_tile) == n_grid \div n_tile
\* a faulty n_sample_of: one factor n_tile short in the 150 family
n_sample_of_short(n_stack_100, n_stack_150, n_tile) ==
    (n_stack_100 * n_tile * n_tile) * (n_stack_150 * n_tile)
\* line 116
n_sample_of(n_stack_100, n_stack_150, n_tile) ==
    (n_stack_100 * n_tile * n_tile) * (n_stack_150 * n_tile * n_tile)

\* lines 85-112: the files that are loaded and the table they fill
loaded_files(a, fields, redshifts) ==
    {f \in a.files : f.field \in fields /\ f.z \in SeqToSet(redshifts)}
data_of(files) ==
    [k \in {<<f.field, f.z>> : f \in files} |->
        (CHOOSE f \in files : <<f.field, f.z>> = k).stats]

\* __init__ as a whole; lf is the order list() gives the label fields.
\* Every array has the shape a.shape says, so n_stack_100, n_grid and
\* n_stack_150 (lines 111-112) are those of any loaded file; with no file
\* loaded they are never set and line 115 raises AttributeError.
dunder_init(a, lf) ==
    LET fs == select_fields(a)
        zs == select_redshifts(a)
    IN IF fs.exc # "none" THEN fs
       ELSE IF zs.exc # "none" THEN zs
       ELSE LET redshifts == sorted(zs.val)
                files == loaded_files(a, fs.val, redshifts)
            IN IF files = {} THEN Raise("AttributeError")
               ELSE Ok([constructed |-> TRUE,
                        data |-> data_of(files),
                        arrays |-> a.arrays,
                        fields |-> fs.val,
                        redshifts |-> redshifts,
                        input_field |-> a.input_field,
                        label_fields |-> lf,
                        n_stack_100 |-> a.shape.n_stack_100,
                        n_stack_150 |-> a.shape.n_stack_150,
                        n_grid |-> a.shape.n_grid,
                        n_tile |-> a.n_tile,
                        tile_size |-> tile_size_of(a.shape.n_grid, a.n_tile),
                        n_sample |-> n_sample_of(a.shape.n_stack_100,
                                                 a.shape.n_stack_150, a.n_tile),
                        transform |-> a.transform,
                        inverse_transform |-> a.inverse_transform])


\* ------------------------------------------------------------ index decoding
\* __len__, lines 320-326
length(ds) == ds.n_sample * Len(ds.redshifts)

\* numpy's a[k] on a 1d array a (here a sequence): negative k counts from the
\* end, anything outside -len..len-1 raises IndexError
np_getitem(a, k) ==
    IF k >= Len(a) \/ k < -Len(a) THEN Raise("IndexError")
    ELSE Ok(a[(IF k < 0 THEN k + Len(a) ELSE k) + 1])

\* sample_idx_to_redshift, lines 259-264.  idx // n_sample is floor division;
\* a float idx gives a float, which numpy refuses as an index (IndexError);
\* None, a str, a list or a tuple has no // with an int (TypeError).
sample_idx_to_redshift(ds, idx) ==
    CASE idx.kind = "int" -> np_getitem(ds.redshifts, idx.val \div ds.n_sample)
      [] idx.kind = "float" -> Raise("IndexError")
      [] OTHER -> Raise("TypeError")

Product(dims, from) ==
    LET P[i \in from..(Len(dims) + 1)] ==
            IF i > Len(dims) THEN 1 ELSE dims[i] * P[i + 1]
    IN P[from]
\* a faulty unravel_index: column-major, the first axis varies fastest
unravel_index_colmajor(flat, dims) ==
    [i \in 1..Len(dims) |->
        (flat \div (Product(dims, 1) \div Product(dims, i))) % dims[i]]
\* np.unravel_index(flat, dims): row-major, the last axis varies fastest
unravel_index(flat, dims) ==
    [i \in 1..Len(dims) |-> (flat \div Product(dims, i + 1)) % dims[i]]

\* lines 243-246: the six coordinates get_stack reads
stack_coords(ds, flat_idx) ==
    unravel_index(flat_idx % ds.n_sample,
                  <<ds.n_stack_100, ds.n_tile, ds.n_tile,
                    ds.n_stack_150, ds.n_tile, ds.n_tile>>)

\* ------------------------------------------------------------ tile retrieval
\* get_stack_stats, lines 197-220
get_stack_stats(ds, field, z) ==
    IF <<field, z>> \notin DOMAIN ds.data THEN Raise("KeyError")
    ELSE LET d == ds.data[<<field, z>>]
         IN Ok([mean |-> d.mean_100 + d.mean_150,
                var |-> d.var_100 + d.var_150])

\* a faulty tile: the crop always starts at row 0 and column 0
tile_uncropped(ds, fam, field, z, s, r, c) ==
    [p \in (0..(ds.tile_size - 1)) \X (0..(ds.tile_size - 1)) |->
        Pixel(ds.arrays, fam, field, z, s, p[1], p[2])]
\* lines 250-253: array[s][r*ts:(r+1)*ts, c*ts:(c+1)*ts]
tile(ds, fam, field, z, s, r, c) ==
    [p \in (0..(ds.tile_size - 1)) \X (0..(ds.tile_size - 1)) |->
        Pixel(ds.arrays, fam, field, z, s, r * ds.tile_size + p[1],
              c * ds.tile_size + p[2])]

\* get_stack, lines 222-257: <<d_100 + d_150, stats>>
get_stack(ds, field, z, flat_idx) ==
    LET idx == stack_coords(ds, flat_idx)
    IN IF <<field, z>> \notin DOMAIN ds.data THEN Raise("KeyError")
       ELSE LET d_100 == tile(ds, "100", field, z, idx[1], idx[2], idx[3])
                d_150 == tile(ds, "150", field, z, idx[4], idx[5], idx[6])
            IN Ok(<<[p \in DOMAIN d_100 |-> d_100[p] + d_150[p]],
                    get_stack_stats(ds, field, z).val>>)

\* ----------------------------------------------------------- sample assembly
\* get_input_sample, lines 266-289
get_input_sample(ds, idx, transform) ==
    LET z == sample_idx_to_redshift(ds, idx)
    IN IF z.exc # "none" THEN z
       ELSE LET st == get_stack(ds, ds.input_field, z.val, idx.val)
            IN IF st.exc # "none" THEN st
               ELSE IF transform
               THEN Ok(transform_fn(ds.transform, st.val[1],
                                    ds.input_field, z.val, st.val[2]))
               ELSE Ok(st.val[1])

\* get_label_sample, lines 291-318
get_label_sample(ds, idx, transform) ==
    LET z == sample_idx_to_redshift(ds, idx)
    IN IF z.exc # "none" THEN z
       ELSE LET st == [i \in DOMAIN ds.label_fields |->
                          get_stack(ds, ds.label_fields[i], z.val, idx.val)]
                d(i) == IF transform
                        THEN transform_fn(ds.transform, st[i].val[1],
                                          ds.label_fields[i], z.val,
                                          st[i].val[2])
                        ELSE st[i].val[1]
            IN IF \E i \in DOMAIN st : st[i].exc # "none"
               THEN st[CHOOSE i \in DOMAIN st : st[i].exc # "none"
                          /\ \A j \in 1..(i - 1) : st[j].exc = "none"]
               ELSE Ok([i \in DOMAIN ds.label_fields |-> d(i)])

\* __getitem__, lines 328-350
getitem(ds, idx) ==
    IF idx.kind \notin Iterables
    THEN LET d_input == get_input_sample(ds, idx, TRUE)
             d_label == get_label_sample(ds, idx, TRUE)
         IN IF d_input.exc # "none" THEN d_input
            ELSE IF d_label.exc # "none" THEN d_label
            ELSE Ok(<<(<<d_input.val>> \o d_label.val), idx>>)
    ELSE Raise("NotImplementedError")

\* create_transform / create_inverse_transform, lines 126-134: the closure
\* lambda x: self.transform(x, field, z, **stats)
create_transform(field, z, stats) ==
    [fn |-> "transform", field |-> field, z |-> z, stats |-> stats]
create_inverse_transform(field, z, stats) ==
    [fn |-> "inverse_transform", field |-> field, z |-> z, stats |-> stats]
\* calling such a closure on x
call(ds, f, x) ==
    IF f.fn = "transform"
    THEN transform_fn(ds.transform, x, f.field, f.z, f.stats)
    ELSE inverse_transform_fn(ds.inverse_transform, x, f.field, f.z, f.stats)

\* a faulty transforms_redshift: no check that one of idx and z is given
transforms_redshift_unchecked(ds, idx, z) ==
    IF z = None THEN sample_idx_to_redshift(ds, idx)
    ELSE Ok(z.val)
\* lines 153-157 and 184-188: the redshift the closures are made for
transforms_redshift(ds, idx, z) ==
    IF idx = None /\ z = None THEN Raise("ValueError")
    ELSE IF z = None THEN sample_idx_to_redshift(ds, idx)
    ELSE Ok(z.val)

\* lines 159-164 and 190-195: one closure per field, input field first
closures(ds, z, inverse) ==
    LET fields == <<ds.input_field>> \o ds.label_fields
        stats == [i \in DOMAIN fields |-> get_stack_stats(ds, fields[i], z)]
    IN IF \E i \in DOMAIN fields : stats[i].exc # "none"
       THEN Raise("KeyError")
       ELSE Ok([i \in DOMAIN fields |->
                   IF inverse
                   THEN create_inverse_transform(fields[i], z, stats[i].val)
                   ELSE create_transform(fields[i], z, stats[i].val)])

\* get_transforms, lines 136-164
get_transforms(ds, idx, z) ==
    LET zz == transforms_redshift(ds, idx, z)
    IN IF zz.exc # "none" THEN zz ELSE closures(ds, zz.val, FALSE)

\* get_inverse_transforms, lines 166-195
get_inverse_transforms(ds, idx, z) ==
    LET zz == transforms_redshift(ds, idx, z)
    IN IF zz.exc # "none" THEN zz ELSE closures(ds, zz.val, TRUE)


\* ------------------------------------------------------- constructor inputs
\* the records of every field in F at every redshift in Z
Complete(F, Z) == {FileRecord(f, z) : f \in F, z \in Z}
\* a list holding the members of a set of numbers, largest first
RECURSIVE Descending(_)
Descending(S) ==
    IF S = {} THEN <<>>
    ELSE LET m == CHOOSE x \in S : \A y \in S : y <= x
         IN <<m>> \o Descending(S \ {m})

\* Calls that sweep the index space: "dm" and "gas" at the first nz
\* redshifts, every stack count and tile count, tiles of one pixel.
ArgsGeometry ==
    {[files |-> Complete({"dm", "gas"}, 0..(nz - 1)),
      redshifts |-> <<>>, input_field |-> "dm", label_fields |-> <<>>,
      n_tile |-> n_tile,
      shape |-> [n_stack_100 |-> n100, n_stack_150 |-> n150,
                 n_grid |-> n_tile],
      transform |-> "shift", inverse_transform |-> "identity",
      arrays |-> 0] :
        nz \in 1..MaxZ, n_tile \in 1..MaxTile,
        n100 \in 1..MaxStack, n150 \in 1..MaxStack}

\* Calls that sweep the tiling: every field at redshift 0, one stack per
\* family, every grid size and tile count.
ArgsTiling ==
    {[files |-> Complete(FieldNames, {0}),
      redshifts |-> <<>>, input_field |-> "dm", label_fields |-> <<>>,
      n_tile |-> n_tile,
      shape |-> [n_stack_100 |-> 1, n_stack_150 |-> 1, n_grid |-> n_grid],
      transform |-> t, inverse_transform |-> t,
      arrays |-> 0] :
        n_tile \in 1..MaxTile, n_grid \in 1..MaxGrid, t \in TransformKinds}

\* Calls that sweep the crop: "dm" and "gas" at redshift 0, one or two stacks
\* in both families, every grid size and tile count, either array contents.
CropStacks == {1, 2}
ArgsCrop ==
    {[files |-> Complete({"dm", "gas"}, {0}),
      redshifts |-> <<>>, input_field |-> "dm", label_fields |-> <<>>,
      n_tile |-> n_tile,
      shape |-> [n_stack_100 |-> ns, n_stack_150 |-> ns, n_grid |-> n_grid],
      transform |-> "identity", inverse_transform |-> "identity",
      arrays |-> arrays] :
        n_tile \in 1..MaxTile, n_grid \in 1..MaxGrid,
        ns \in CropStacks, arrays \in ArrayContents}

\* Calls that sweep the validation: any non-empty set of records of the three fields
\* at redshifts 0 and 1, any redshift allow-list over {0, 1, 2}, a few label
\* allow-lists; one-pixel geometry.
ValidationZs == {0, 1}
ArgsValidation ==
    {[files |-> files,
      redshifts |-> Descending(zs), input_field |-> "dm",
      label_fields |-> labels,
      n_tile |-> 1,
      shape |-> [n_stack_100 |-> 1, n_stack_150 |-> 1, n_grid |-> 1],
      transform |-> "shift", inverse_transform |-> "identity",
      arrays |-> 0] :
        files \in (SUBSET Complete(FieldNames, ValidationZs)) \ {{}},
        zs \in SUBSET (ValidationZs \cup {2}),
        labels \in {<<>>, <<"gas">>, <<"pressure", "gas">>}}

\* ------------------------------------------------------------------ actions
Init ==
    /\ args \in ArgsGeometry \cup ArgsTiling \cup ArgsCrop \cup ArgsValidation
    /\ pc = "new"
    /\ err = NoErr
    /\ self = NoSelf
    /\ self0 = NoSelf
    /\ res = NoRes
    /\ failed_call = FALSE

\* BAHAMASDataset(files, ...)
Construct ==
    /\ pc = "new"
    /\ \E lf \in (IF select_fields(args).exc = "none"
                  THEN ListsOf(label_set(args)) ELSE {<<>>}) :
          LET r == dunder_init(args, lf)
          IN IF r.exc = "none"
             THEN /\ pc' = "ready"
                  /\ self' = r.val
                  /\ self0' = r.val
                  /\ err' = NoErr
             ELSE /\ pc' = "failed"
                  /\ err' = r
                  /\ UNCHANGED <<self, self0>>
    /\ UNCHANGED <<args, res, failed_call>>

\* the integer indices a caller tries: every valid one, and on each side the
\* first ones out of range and the ones around -length()
IntIdx ==
    {PyInt(i) : i \in (0..(length(self) + 1)) \cup {-2, -1}
                      \cup ((-length(self) - 2)..(-length(self) + 1))}
\* the other things a caller may pass as idx
OtherIdx ==
    {None, PyFloat(0), PyFloat(length(self))}
        \cup {[kind |-> k, val |-> 0] : k \in Iterables}
ZArgs == {PyInt(z) : z \in 0..MaxZ}

\* Calls are synchronous, one at a time: each is made (res = NoRes) once the
\* result of the one before has been taken.  A call leaves its outcome in res.
Called(op, idx, z, flag, out) ==
    /\ res' = [op |-> op, idx |-> idx, z |-> z, flag |-> flag, out |-> out]
    /\ failed_call' = (failed_call \/ out.exc # "none")
    /\ UNCHANGED <<args, pc, err, self, self0>>

\* dataset[idx]
GetItem ==
    /\ pc = "ready" /\ res = NoRes
    /\ \E idx \in IntIdx \cup OtherIdx :
          Called("getitem", idx, None, TRUE, getitem(self, idx))

GetInputSample ==
    /\ pc = "ready" /\ res = NoRes
    /\ \E idx \in IntIdx, flag \in BOOLEAN :
          Called("get_input_sample", idx, None, flag,
                 get_input_sample(self, idx, flag))

GetLabelSample ==
    /\ pc = "ready" /\ res = NoRes
    /\ \E idx \in IntIdx, flag \in BOOLEAN :
          Called("get_label_sample", idx, None, flag,
                 get_label_sample(self, idx, flag))

GetTransforms ==
    /\ pc = "ready" /\ res = NoRes
    /\ \E idx \in IntIdx \cup {None}, z \in ZArgs \cup {None} :
          /\ z # None => idx \in {None, PyInt(0)}
          /\ Called("get_transforms", idx, z, FALSE,
                    get_transforms(self, idx, z))

GetInverseTransforms ==
    /\ pc = "ready" /\ res = NoRes
    /\ \E idx \in IntIdx \cup {None}, z \in ZArgs \cup {None} :
          /\ z # None => idx \in {None, PyInt(0)}
          /\ Called("get_inverse_transforms", idx, z, FALSE,
                    get_inverse_transforms(self, idx, z))

\* len(dataset)
GetLen ==
    /\ pc = "ready" /\ res = NoRes
    /\ Called("len", None, None, FALSE, Ok(length(self)))

\* A call that names its field: what Called records, and the field.
CalledOn(op, field, idx, z, out) ==
    /\ res' = [op |-> op, field |-> field, idx |-> idx, z |-> z,
               flag |-> FALSE, out |-> out]
    /\ failed_call' = (failed_call \/ out.exc # "none")
    /\ UNCHANGED <<args, pc, err, self, self0>>

\* the flat indices get_stack is called with: one period of its wrap-around,
\* the first one past it and the last one before it
StackIdx == {PyInt(i) : i \in (-1)..self.n_sample}

\* dataset.get_stack(field, z, flat_idx), tried at the lowest and the highest
\* redshift of the sweep; a (field, z) the dataset does not hold is tried at
\* flat_idx 0 only
GetStack ==
    /\ pc = "ready" /\ res = NoRes
    /\ \E field \in FieldNames, z \in {0, MaxZ}, idx \in StackIdx :
          /\ <<field, z>> \notin DOMAIN self.data => idx = PyInt(0)
          /\ CalledOn("get_stack", field, idx, PyInt(z),
                      get_stack(self, field, z, idx.val))

\* dataset.get_stack_stats(field, z)
GetStackStats ==
    /\ pc = "ready" /\ res = NoRes
    /\ \E field \in FieldNames, z \in 0..MaxZ :
          CalledOn("get_stack_stats", field, None, PyInt(z),
                   get_stack_stats(self, field, z))

\* the caller takes the result of the last call
Return ==
    /\ res # NoRes
    /\ res' = NoRes
    /\ UNCHANGED <<args, pc, err, self, self0, failed_call>>

Next ==
    \/ Construct
    \/ GetItem
    \/ GetInputSample
    \/ GetLabelSample
    \/ GetTransforms
    \/ GetInverseTransforms
    \/ GetLen
    \/ GetStack
    \/ GetStackStats
    \/ Return

Spec == Init /\ [][Next]_vars


\* ------------------------------------------------------------------- claims
SampleOps == {"getitem", "get_input_sample", "get_label_sample"}
IdxOps == SampleOps \cup {"get_transforms", "get_inverse_transforms"}
\* the last call was op-in-ops with an integer idx
CalledWithInt(ops) ==
    pc = "ready" /\ res # NoRes /\ res.op \in ops /\ res.idx.kind = "int"
InRange(i) == 0 <= i /\ i < length(self)

\* the position of redshift z in the sorted redshifts, counted from 0
redshift_index(ds, z) ==
    CHOOSE k \in 0..(Len(ds.redshifts) - 1) : ds.redshifts[k + 1] = z
\* the mixed-radix formula: the flat index of (redshift index, 6-tuple)
Encode(ds, k, c) ==
    k * ds.n_sample
      + ((((c[1] * ds.n_tile + c[2]) * ds.n_tile + c[3]) * ds.n_stack_150
            + c[4]) * ds.n_tile + c[5]) * ds.n_tile + c[6]
Radix(ds) ==
    <<ds.n_stack_100, ds.n_tile, ds.n_tile,
      ds.n_stack_150, ds.n_tile, ds.n_tile>>

\* C1: for every idx in [0, length()) a sample call decodes, the redshift
\* sample_idx_to_redshift gives and the six coordinates get_stack reads
\* re-encode, by the mixed-radix formula, to idx itself; every coordinate is
\* inside its radix; idx = 0 decodes to (0,0,0,0,0,0) at the lowest redshift.
\* (That two valid indices never share a decoding follows from the round trip.)
C1_DecodeEncodeRoundTrip ==
    (CalledWithInt(SampleOps) /\ InRange(res.idx.val)) =>
        LET i == res.idx.val
            z == sample_idx_to_redshift(self, res.idx)
            c == stack_coords(self, i)
        IN /\ z.exc = "none"
           /\ z.val = self.redshifts[(i \div self.n_sample) + 1]
           /\ \A d \in 1..6 : 0 <= c[d] /\ c[d] < Radix(self)[d]
           /\ Encode(self, redshift_index(self, z.val), c) = i
           /\ i = 0 =>
                /\ c = <<0, 0, 0, 0, 0, 0>>
                /\ \A y \in SeqToSet(self.redshifts) : z.val <= y

\* a sample call at the second redshift of a dataset whose two stack counts
\* differ, with a non-zero stack coordinate and non-zero tile coordinates
C1_Witness ==
    /\ CalledWithInt(SampleOps) /\ InRange(res.idx.val)
    /\ res.out.exc = "none"
    /\ res.idx.val >= self.n_sample
    /\ self.n_stack_100 # self.n_stack_150
    /\ LET c == stack_coords(self, res.idx.val)
       IN /\ c[1] > 0 \/ c[4] > 0
          /\ \A d \in {2, 3, 5, 6} : c[d] > 0

\* C2 (as claimed): every per-sample call with an integer idx that is negative
\* or >= length() raises IndexError.
C2_OutOfRangeRaises ==
    (CalledWithInt(IdxOps) /\ res.z = None /\ ~InRange(res.idx.val)) =>
        res.out.exc = "IndexError"

\* C3 (as claimed): construction fails with a configuration error when n_grid
\* is not a multiple of n_tile, and a constructed dataset has
\* tile_size * n_tile = n_grid.
C3_NonIntegralTileRejected ==
    /\ (pc # "new" /\ args.shape.n_grid % args.n_tile # 0) =>
          (pc = "failed" /\ err.exc = "ValueError")
    /\ pc = "ready" => self.tile_size * self.n_tile = self.n_grid

\* the fields a call asks for and the fields its file records have
RequestedFields == {args.input_field} \cup SeqToSet(args.label_fields)
RecordFields == {f.field : f \in args.files}

\* C4 (as claimed): construction fails with a configuration error naming
\* exactly the missing requested fields whenever the input field or a field
\* of the label allow-list is in no file record, allow-list or not.
C4_MissingFieldRejected ==
    (pc # "new" /\ ~(RequestedFields \subseteq RecordFields)) =>
        /\ pc = "failed"
        /\ err.exc = "ValueError"
        /\ err.what = "fields"
        /\ err.missing = RequestedFields \ RecordFields

\* the redshifts a call asks for and the redshifts its file records have
RequestedZs == SeqToSet(args.redshifts)
RecordZsOf == {f.z : f \in args.files}
\* the field validation of lines 63-69, which runs first, lets the call through
FieldsPass ==
    args.label_fields = <<>> \/ RequestedFields \subseteq RecordFields
\* the retained redshifts are the requested ones, ascending, and position
\* idx div n_sample of that order is the redshift of a call with idx
RetainedAsRequested ==
    /\ SeqToSet(self.redshifts) = RequestedZs
    /\ \A i, j \in DOMAIN self.redshifts :
          i < j => self.redshifts[i] < self.redshifts[j]
    /\ (CalledWithInt(IdxOps) /\ res.z = None /\ InRange(res.idx.val)) =>
          sample_idx_to_redshift(self, res.idx) =
              Ok(self.redshifts[(res.idx.val \div self.n_sample) + 1])
    /\ (CalledWithInt({"get_transforms", "get_inverse_transforms"})
          /\ res.z = None /\ InRange(res.idx.val)
          /\ res.out.exc = "none") =>
          \A k \in DOMAIN res.out.val :
              res.out.val[k].z =
                  self.redshifts[(res.idx.val \div self.n_sample) + 1]

\* C5 (as claimed): with a redshift allow-list, construction fails with a
\* configuration error naming exactly the absent requested redshifts if any is
\* absent; otherwise the retained redshifts are the requested ones, ascending,
\* and that order is the redshift-index mapping.
C5_AsClaimed ==
    (pc # "new" /\ args.redshifts # <<>>) =>
        IF RequestedZs \ RecordZsOf # {}
        THEN /\ pc = "failed"
             /\ err.exc = "ValueError"
             /\ err.what = "redshifts"
             /\ err.missing = RequestedZs \ RecordZsOf
        ELSE pc = "ready" => RetainedAsRequested

\* C5 (amended): with a redshift allow-list of which some redshift is absent,
\* construction fails with a configuration error; it names exactly the absent
\* requested redshifts when the field validation, which runs first, has
\* passed, and the missing fields when it has not.  With none absent, the
\* retained redshifts of a constructed dataset are the requested ones,
\* ascending, in the order idx div n_sample indexes.
C5_RedshiftAllowList ==
    (pc # "new" /\ args.redshifts # <<>>) =>
        IF RequestedZs \ RecordZsOf # {}
        THEN /\ pc = "failed"
             /\ err.exc = "ValueError"
             /\ FieldsPass =>
                   /\ err.what = "redshifts"
                   /\ err.missing = RequestedZs \ RecordZsOf
             /\ ~FieldsPass =>
                   /\ err.what = "fields"
                   /\ err.missing = RequestedFields \ RecordFields
        ELSE pc = "ready" => RetainedAsRequested

\* a call asking for redshifts 2 and 0 of records that have 0 but not 2,
\* with a label allow-list that passes: the error names exactly {2}
C5_Witness ==
    /\ pc = "failed"
    /\ args.label_fields # <<>>
    /\ RequestedZs = {0, 2}
    /\ 0 \in RecordZsOf
    /\ err.exc = "ValueError"
    /\ err.what = "redshifts"
    /\ err.missing = {2}

\* the index set of a (tile_size, tile_size) array
TileShape == (0..(self.tile_size - 1)) \X (0..(self.tile_size - 1))

\* C6 (as claimed): for every idx in [0, length()), get_sample(idx) returns
\* the unchanged idx and a list of 1 + len(label_fields) arrays, each of shape
\* (tile_size, tile_size), whatever file records construction accepted.
\* Stated for the datasets whose input field occurs in the records, so that
\* a violation does not rest on the missing-input-field case of C4.
C6_SampleShape ==
    (CalledWithInt({"getitem"}) /\ InRange(res.idx.val)
        /\ args.input_field \in RecordFields) =>
        /\ res.out.exc = "none"
        /\ res.out.val[2] = res.idx
        /\ Len(res.out.val[1]) = 1 + Len(self.label_fields)
        /\ \A k \in DOMAIN res.out.val[1] :
              DOMAIN res.out.val[1][k] = TileShape

\* C7 (as claimed): dataset[idx] with an idx that is a list, a tuple, an
\* array, a string or a non-integral number raises NotImplementedError.
C7_NonIntegerRejected ==
    (pc = "ready" /\ res # NoRes /\ res.op = "getitem"
        /\ res.idx.kind \in Iterables \cup {"float"}) =>
        res.out.exc = "NotImplementedError"

\* the outcome of calling the k-th closure of get_transforms(idx) on x, where
\* x is the outcome of the untransformed sample call
Applied(tf, k, x) ==
    IF tf.exc # "none" THEN Raise(tf.exc)
    ELSE IF x.exc # "none" THEN Raise(x.exc)
    ELSE Ok(call(self, tf.val[k], x.val))

\* C8 (as claimed): for every valid idx, the first closure of
\* get_transforms(idx) applied to get_input_sample(idx, transform=False) is
\* get_input_sample(idx, transform=True), and closure k + 1 applied to element
\* k of get_label_sample(idx, transform=False) is element k of
\* get_label_sample(idx, transform=True).  Stated for the datasets whose
\* input field occurs in the records, so that a violation does not rest on
\* the missing-input-field case of C4.
C8_TransformPaths ==
    /\ (CalledWithInt({"get_input_sample"}) /\ res.flag
            /\ InRange(res.idx.val) /\ args.input_field \in RecordFields) =>
          Applied(get_transforms(self, res.idx, None), 1,
                  get_input_sample(self, res.idx, FALSE)) = res.out
    /\ (CalledWithInt({"get_label_sample"}) /\ res.flag
            /\ InRange(res.idx.val) /\ args.input_field \in RecordFields
            /\ res.out.exc = "none") =>
          LET raw == get_label_sample(self, res.idx, FALSE)
              tf == get_transforms(self, res.idx, None)
          IN /\ raw.exc = "none"
             /\ \A k \in DOMAIN res.out.val :
                   Applied(tf, k + 1, Ok(raw.val[k])) = Ok(res.out.val[k])

\* What holds of the two paths on every dataset: whenever get_transforms(idx)
\* returns, its closures reproduce the transformed samples.
C8_PathsAgreeWhenBothReturn ==
    LET tf == get_transforms(self, res.idx, None)
    IN /\ (CalledWithInt({"get_input_sample"}) /\ res.flag
              /\ InRange(res.idx.val) /\ tf.exc = "none") =>
            Applied(tf, 1, get_input_sample(self, res.idx, FALSE)) = res.out
       /\ (CalledWithInt({"get_label_sample"}) /\ res.flag
              /\ InRange(res.idx.val) /\ tf.exc = "none") =>
            LET raw == get_label_sample(self, res.idx, FALSE)
            IN /\ res.out.exc = "none" /\ raw.exc = "none"
               /\ \A k \in DOMAIN res.out.val :
                     call(self, tf.val[k + 1], raw.val[k]) = res.out.val[k]

\* the redshifts a call keeps, and the arguments of the example of the spec
Retained == IF args.redshifts = <<>> THEN RecordZsOf ELSE RequestedZs
ExampleArgs ==
    [files |-> Complete({"dm", "gas"}, {0, 1}),
     redshifts |-> <<>>, input_field |-> "dm", label_fields |-> <<>>,
     n_tile |-> 4,
     shape |-> [n_stack_100 |-> 10, n_stack_150 |-> 8, n_grid |-> 512],
     transform |-> "identity", inverse_transform |-> "identity",
     arrays |-> 0]

\* C9: length() is n_sample * the number of retained redshifts, with
\* n_sample = (n_stack_100 * n_tile^2) * (n_stack_150 * n_tile^2); the same
\* call with 2 * n_tile tiles per axis gives an n_sample 16 times larger; and
\* 10 and 8 stacks, 4 tiles per axis, 2 redshifts give 20480 and 40960.
C9_Length ==
    pc = "ready" =>
        /\ self.n_sample = (self.n_stack_100 * self.n_tile ^ 2)
                              * (self.n_stack_150 * self.n_tile ^ 2)
        /\ length(self) = self.n_sample * Cardinality(Retained)
        /\ (res # NoRes /\ res.op = "len") =>
              res.out = Ok(self.n_sample * Cardinality(Retained))
        /\ LET twice == dunder_init([args EXCEPT !.n_tile = 2 * @],
                                    self.label_fields)
           IN twice.exc = "none" /\ twice.val.n_sample = 16 * self.n_sample
        /\ LET ex == dunder_init(ExampleArgs, <<"gas">>)
           IN /\ ex.exc = "none"
              /\ ex.val.n_sample = 20480
              /\ length(ex.val) = 40960

\* len() was called on a dataset of two redshifts, two tiles per axis and
\* different stack counts
C9_Witness ==
    /\ pc = "ready" /\ res # NoRes /\ res.op = "len"
    /\ res.out.val = length(self)
    /\ self.n_tile = 2
    /\ Len(self.redshifts) = 2
    /\ self.n_stack_100 # self.n_stack_150

\* what a call gives on dataset ds
Outcome(ds, op, idx, z, flag) ==
    CASE op = "getitem" -> getitem(ds, idx)
      [] op = "get_input_sample" -> get_input_sample(ds, idx, flag)
      [] op = "get_label_sample" -> get_label_sample(ds, idx, flag)
      [] op = "get_transforms" -> get_transforms(ds, idx, z)
      [] op = "get_inverse_transforms" -> get_inverse_transforms(ds, idx, z)
      [] op = "len" -> Ok(length(ds))
      [] op = "get_stack" -> get_stack(ds, res.field, z.val, idx.val)
      [] op = "get_stack_stats" -> get_stack_stats(ds, res.field, z.val)

\* C10: get_transforms and get_inverse_transforms with neither idx nor z
\* raise ValueError; after any calls, failed or not, the attributes of the
\* dataset are those __init__ left, and every call returns what it would
\* have returned right after construction.
C10_ReadOnly ==
    /\ (pc = "ready" /\ res # NoRes
          /\ res.op \in {"get_transforms", "get_inverse_transforms"}
          /\ res.idx = None /\ res.z = None) =>
          res.out.exc = "ValueError"
    /\ pc = "ready" => self = self0
    /\ (pc = "ready" /\ res # NoRes) =>
          res.out = Outcome(self0, res.op, res.idx, res.z, res.flag)
    /\ pc # "ready" => res = NoRes

\* a sample returned by dataset[idx] after an earlier call has raised
C10_Witness ==
    /\ pc = "ready"
    /\ failed_call
    /\ res # NoRes /\ res.op = "getitem"
    /\ res.out.exc = "none"
    /\ res.out = getitem(self0, res.idx)

\* the crop of stack s of the family-fam array of (field, z): rows
\* [r * tile_size, (r + 1) * tile_size), columns [c * tile_size,
\* (c + 1) * tile_size), counted from the corner of the crop
Crop(fam, field, z, s, r, c) ==
    LET ts == args.shape.n_grid \div args.n_tile
    IN [p \in (0..(ts - 1)) \X (0..(ts - 1)) |->
           Pixel(args.arrays, fam, field, z, s, r * ts + p[1], c * ts + p[2])]
\* the coordinates (s100, r100, c100, s150, r150, c150) idx decodes to
\* (row-major over (n_stack_100, n_tile, n_tile, n_stack_150, n_tile,
\* n_tile), after idx is reduced modulo n_sample), last coordinate first
Decoding(idx) ==
    LET nt == args.n_tile
        i6 == idx % self0.n_sample
        i5 == i6 \div nt
        i4 == i5 \div nt
        i3 == i4 \div args.shape.n_stack_150
        i2 == i3 \div nt
        i1 == i2 \div nt
    IN <<i1 % args.shape.n_stack_100, i2 % nt, i3 % nt,
         i4 % args.shape.n_stack_150, i5 % nt, i6 % nt>>
\* mean_100 + mean_150 and var_100 + var_150 of the record of (field, z)
RecordStats(field, z) ==
    LET f == CHOOSE f \in args.files : f.field = field /\ f.z = z
    IN [mean |-> f.stats.mean_100 + f.stats.mean_150,
        var |-> f.stats.var_100 + f.stats.var_150]
\* a get_stack or get_stack_stats call on a (field, z) the dataset holds
StackCall(op) ==
    /\ pc = "ready" /\ res # NoRes /\ res.op = op
    /\ <<res.field, res.z.val>> \in DOMAIN self0.data

\* C11: get_stack(field, z, idx) returns the elementwise sum of the crop of
\* the "100" array at stack s100, tile (r100, c100), and the crop of the "150"
\* array at stack s150, tile (r150, c150), the six coordinates being the
\* decoding of idx; the statistics it returns with the tile, and those
\* get_stack_stats returns, are mean_100 + mean_150 and var_100 + var_150 of
\* the (field, z) record, whatever idx is and whatever the arrays hold.
C11_GetStack ==
    /\ StackCall("get_stack") =>
          LET c == Decoding(res.idx.val)
              d_100 == Crop("100", res.field, res.z.val, c[1], c[2], c[3])
              d_150 == Crop("150", res.field, res.z.val, c[4], c[5], c[6])
          IN /\ res.out.exc = "none"
             /\ DOMAIN res.out.val[1] = DOMAIN d_100
             /\ \A p \in DOMAIN d_100 :
                   res.out.val[1][p] = d_100[p] + d_150[p]
             /\ res.out.val[2] = RecordStats(res.field, res.z.val)
    /\ StackCall("get_stack_stats") =>
          res.out = Ok(RecordStats(res.field, res.z.val))

\* get_stack returning a tile of four pixels of a label field, from arrays
\* of the second contents, at an idx outside [0, n_sample) that decodes to a
\* non-zero stack, tile row and tile column in both families
C11_Witness ==
    /\ StackCall("get_stack")
    /\ res.out.exc = "none"
    /\ args.arrays = 1
    /\ res.field = "gas"
    /\ res.idx.val < 0 \/ res.idx.val >= self0.n_sample
    /\ \A d \in 1..6 : Decoding(res.idx.val)[d] > 0
    /\ Encode(self0, 0, Decoding(res.idx.val)) = res.idx.val % self0.n_sample
    /\ Cardinality(DOMAIN res.out.val[1]) = 4

=============================================================================
